---- MODULE Spec2Model ----
(***************************************************************************)
(* Model of the useStore hook (src/src/hooks/useStore.ts): the effect that *)
(* bridges a tldraw Local Store and a Yjs Replicated Log (YKeyValue +      *)
(* "meta" map) over a y-websocket transport.                               *)
(*                                                                         *)
(* Each action is one event delivered to the hook together with every      *)
(* handler the event runs, to completion (the handlers are synchronous     *)
(* callbacks on one thread).                                               *)
(***************************************************************************)
EXTENDS Integers, Sequences, FiniteSets, TLC

VARIABLES
    status,             \* storeWithStatus: "loading" | "online" | "offline"
    hasConnectedBefore, \* the flag of line 254
    listeners,          \* how many of each handler are currently subscribed
    unsubs,             \* the disposer list of line 37, as a sequence of tags
    store,              \* Local Store: id -> record content, or Absent
    log,                \* Replicated Log (yStore): id -> record content, or Absent
    marker,             \* meta.get('schema'): NoSchema or a schema version
    awareness,          \* room.awareness states: local and remote presence
    wsconnected,        \* the transport's last reported status
    presence,           \* presenceDerivation.get(): this participant's presence
    frames,             \* pending requestAnimationFrame callbacks, each the
                        \* presence its closure captured, in scheduling order
    hist                \* observation: the last event (op), the marker handleSync read
                        \* (from), the log transactions and mergeRemoteChanges calls
                        \* of the last event, the handleSync calls made (runs) and
                        \* completed (done), whether 'synced' has been emitted
                        \* (heard), the state the first reconciliation
                        \* left, kept while no later edit has changed the log
                        \* (first); of the last event also: whether a user edit
                        \* both put and removed records (mixed), whether a peer
                        \* could see part of its batch (partial), whether
                        \* store.put was handed undefined (undef), the
                        \* setLocalStateField calls (publishes); and whether an
                        \* incompatible schema has been detected and no
                        \* reconciliation has completed since (incompatible),
                        \* and the late events counted against MaxLate (late)

vars == <<status, hasConnectedBefore, listeners, unsubs, store, log, marker,
          awareness, wsconnected, presence, frames, hist>>

----------------------------------------------------------------------------
(* Bounds *)

\* handleSync is invoked at most this many times in a behaviour.
MaxSyncs == 2

\* A local or remote change set touches at most this many records.
MaxBatch == 2

\* At most this many requestAnimationFrame callbacks are pending at a time.
MaxFrames == 3

\* In the teardown specification, at most this many edits, remote
\* transactions, marker updates and presence changes follow the cleanup.
MaxLate == 1

----------------------------------------------------------------------------
(* Records and schemas *)

DocIds == {"d1", "d2"}          \* document-scope records (shapes, pages)
SessionIds == {"s1"}            \* session-scope records (instance, camera)
PresenceIds == {"p1"}           \* the presence record of remote participant A
OwnPresenceId == "p0"           \* presenceId (line 117): this participant's own,
                                \* which no handler puts into the store
Ids == DocIds \cup SessionIds \cup PresenceIds

\* yStore.get(id) of a missing key, store.get(id) of a missing record.
Absent == 0

\* meta.get('schema') when no participant has set it.
NoSchema == 0

\* store.schema.serialize(): the schema version this build knows.
OurSchema == 2

OldSchema == OurSchema - 1
NewerSchema == OurSchema + 1

\* Record contents: a content c written under OldSchema becomes c + MigShift
\* under OurSchema, except DroppedVal, a record the migration removes.
MigShift == 10

DroppedVal == 2

OldVals == {1, DroppedVal}
NewVals == {MigShift + 1, MigShift + 2}
EphemeralVal == MigShift + 1

\* The values presenceDerivation takes (cursor, selection, name, colour), and
\* the one it has when the hook is constructed.
PresenceVals == NewVals
InitialPresence == MigShift + 1

EmptyRecs == [id \in Ids |-> Absent]
Keys(recs) == {id \in Ids : recs[id] # Absent}
DocPart(recs) == [id \in Ids |-> IF id \in DocIds THEN recs[id] ELSE Absent]

\* One migration step of store.schema, applied to one record content.
MigrateRecord(c) ==
    IF c = Absent \/ c = DroppedVal THEN Absent ELSE c + MigShift

\* store.schema.migrateStoreSnapshot({schema, store}): an error when the
\* snapshot's schema is newer than ours, otherwise every pending migration
\* applied to every record.
MigrationOk(schema) == schema <= OurSchema

RECURSIVE MigrateFrom(_, _)
MigrateFrom(schema, recs) ==
    IF schema >= OurSchema THEN recs
    ELSE MigrateFrom(schema + 1, [id \in Ids |-> MigrateRecord(recs[id])])

migrateStoreSnapshot(schema, recs) == MigrateFrom(schema, recs)

----------------------------------------------------------------------------
(* Listener bookkeeping *)

\* Subscriptions: room 'status' and 'synced' (one function each, so at most
\* one subscription), and the closures each handleSync call creates.
NoListeners ==
    [status |-> 0, synced |-> 0,
     store |-> 0, change |-> 0, react |-> 0, meta |-> 0, update |-> 0]

\* SyncDisposers with no disposer pushed for the marker observer.
SyncDisposersWithoutMeta == <<"store", "change", "react", "update">>

\* The five disposers handleSync pushes, in order (lines 41, 98, 127, 188, 191).
SyncDisposers == <<"store", "change", "react", "meta", "update">>

\* A change set: a partial assignment id -> new content (Absent removes).
ChangeSets(ids, vals) ==
    UNION { [S -> vals \cup {Absent}] :
            S \in {T \in SUBSET ids : T # {} /\ Cardinality(T) <= MaxBatch} }

Apply(recs, cs) ==
    [id \in Ids |-> IF id \in DOMAIN cs THEN cs[id] ELSE recs[id]]

\* The net changes of a change set against recs, restricted to scope.
Added(recs, cs, scope) ==
    {id \in DOMAIN cs \cap scope : recs[id] = Absent /\ cs[id] # Absent}
Updated(recs, cs, scope) ==
    {id \in DOMAIN cs \cap scope :
        recs[id] # Absent /\ cs[id] # Absent /\ cs[id] # recs[id]}
Removed(recs, cs, scope) ==
    {id \in DOMAIN cs \cap scope : recs[id] # Absent /\ cs[id] = Absent}


NoSnapshot == [taken |-> FALSE, log |-> EmptyRecs, marker |-> NoSchema, store |-> EmptyRecs]

\* The observation of an event that opened no log transaction, merged nothing
\* and published nothing.
Quiet(h, op) ==
    [h EXCEPT !.op = op, !.from = NoSchema, !.txns = 0, !.merges = 0,
              !.mixed = FALSE, !.partial = FALSE, !.undef = FALSE,
              !.publishes = 0]

----------------------------------------------------------------------------
(* Sync Bridge *)

\* syncStoreChangesToYjsDoc (lines 43-57): one yDoc transaction that sets every
\* added and updated record and deletes every removed one. newStore holds the
\* records the change set carries.
syncStoreChangesToYjsDoc(l, newStore, added, updated, removed) ==
    [id \in Ids |->
        IF id \in removed THEN Absent
        ELSE IF id \in added \cup updated THEN newStore[id]
        ELSE l[id]]

\* The yDoc transactions of one syncStoreChangesToYjsDoc call, each as the set
\* of keys it sets or deletes, with the sets in one and the deletes in another.
StoreChangeTransactionsSplit(added, updated, removed) ==
    <<added \cup updated, removed>>

\* The yDoc transactions of one syncStoreChangesToYjsDoc call, each as the set
\* of keys it sets or deletes: the single yDoc.transact of line 44 encloses
\* the three loops.
StoreChangeTransactions(added, updated, removed) ==
    <<added \cup updated \cup removed>>

\* The transactions n subscribed listeners commit for one change set, in order.
RECURSIVE StoreTransactions(_, _, _, _)
StoreTransactions(n, added, updated, removed) ==
    IF n = 0 THEN <<>>
    ELSE StoreChangeTransactions(added, updated, removed)
            \o StoreTransactions(n - 1, added, updated, removed)

\* A peer receives the log transaction by transaction: whether, after some
\* transaction of txs, it has seen some but not all of the changes in all.
PartialBatch(txs, all) ==
    \E i \in 1..Len(txs) :
        LET seen == UNION {txs[j] : j \in 1..i}
        IN seen # {} /\ seen # all

\* The listener filter of line 58, {source: "user", scope: "document"}: of
\* the n subscribed listeners, how many a change of the given source that
\* touches the document-scope ids in changed is delivered to.
StoreListeners(n, source, changed) ==
    IF source = "user" /\ changed # {} THEN n ELSE 0

\* store.listen delivers the change set to each of the n listeners in turn.
RECURSIVE NotifyStoreListeners(_, _, _, _, _, _)
NotifyStoreListeners(n, l, newStore, added, updated, removed) ==
    IF n = 0 THEN l
    ELSE NotifyStoreListeners(n - 1,
            syncStoreChangesToYjsDoc(l, newStore, added, updated, removed),
            newStore, added, updated, removed)

\* handleChange (lines 63-94) for one notification: a local transaction is
\* dropped; otherwise every added/updated key is fetched from the log and
\* pushed on put as fetched (line 76-78, no test of the value), every deleted
\* key pushed on remove, and both handed to the store inside one
\* mergeRemoteChanges, remove first. undef tells that put holds an undefined;
\* store.put then throws on it, and the store field is the store with the
\* removals made and no record put.
\* The result is the store and the number of mergeRemoteChanges calls.
handleChange(local, st, l, putKeys, removeKeys) ==
    LET undef == \E id \in putKeys : l[id] = Absent
    IN IF local THEN [store |-> st, merges |-> 0, undef |-> FALSE]
       ELSE [store |-> [id \in Ids |->
                           IF id \in putKeys /\ ~undef THEN l[id]
                           ELSE IF id \in removeKeys THEN Absent
                           ELSE st[id]],
             merges |-> 1,
             undef |-> undef]

\* yStore 'change' is delivered to each of the n subscribed handleChange; a
\* handler that throws ends the delivery.
RECURSIVE NotifyChangeListeners(_, _, _, _, _, _)
NotifyChangeListeners(n, local, st, l, putKeys, removeKeys) ==
    IF n = 0 THEN [store |-> st, merges |-> 0, undef |-> FALSE]
    ELSE LET one == handleChange(local, st, l, putKeys, removeKeys)
             rest == NotifyChangeListeners(n - 1, local, one.store, l, putKeys, removeKeys)
         IN IF one.undef THEN one
            ELSE [store |-> rest.store, merges |-> one.merges + rest.merges,
                  undef |-> rest.undef]

\* handleUpdate keeping a removed client's presence record.
handleUpdateKeepingRemoved(st, states, putClients, removeClients) ==
    [id \in Ids |->
        IF id \in putClients /\ states[id] # Absent /\ id # OwnPresenceId
        THEN states[id]
        ELSE st[id]]

\* handleUpdate (lines 138-171) for one awareness 'update': the presence of
\* every added/updated client that has one and is not ours is put, the
\* presence id of every removed client is removed.
handleUpdate(st, states, putClients, removeClients) ==
    [id \in Ids |->
        IF id \in putClients /\ states[id] # Absent /\ id # OwnPresenceId
        THEN states[id]
        ELSE IF id \in removeClients THEN Absent
        ELSE st[id]]

\* room.awareness.getStates() (line 143): every client's presence, ours too.
AwarenessStates(a) ==
    [id \in PresenceIds \cup {OwnPresenceId} |->
        IF id = OwnPresenceId THEN a.local ELSE a.remote[id]]

\* room.awareness.setLocalStateField('presence', v) (lines 123, 131).
setLocalStateField(a, v) == [a EXCEPT !.local = v]

RECURSIVE NotifyUpdateListeners(_, _, _, _, _)
NotifyUpdateListeners(n, st, states, putClients, removeClients) ==
    IF n = 0 THEN st
    ELSE NotifyUpdateListeners(n - 1,
            handleUpdate(st, states, putClients, removeClients),
            states, putClients, removeClients)

----------------------------------------------------------------------------
(* Initial reconciliation *)

\* ReconcileLog without the delete loop of lines 221-225.
ReconcileLogNoDelete(l, snap) ==
    [id \in Ids |-> IF snap[id] # Absent THEN snap[id] ELSE l[id]]

\* Lines 219-230: delete the log records the migration dropped, set every
\* record of the migrated snapshot.
ReconcileLog(l, snap) ==
    LET afterDelete == [id \in Ids |->
                          IF l[id] # Absent /\ snap[id] = Absent THEN Absent ELSE l[id]]
    IN [id \in Ids |-> IF snap[id] # Absent THEN snap[id] ELSE afterDelete[id]]

\* Lines 232-235: store.loadSnapshot replaces the store's records.
loadSnapshot(st, snap) == snap

\* SeedLog writing the document-scope records only.
SeedLogDocumentOnly(l, st) ==
    [id \in Ids |-> IF st[id] # Absent /\ id \in DocIds THEN st[id] ELSE l[id]]

\* Lines 238-243: every record of store.allRecords() is set in the log.
SeedLog(l, st) ==
    [id \in Ids |-> IF st[id] # Absent THEN st[id] ELSE l[id]]

\* Lines 229 and 242: meta.set('schema', store.schema.serialize()).
MarkerAfterSync == OurSchema

\* SyncOutcome taking a failed migration for a successful one.
SyncOutcomeIgnoringError ==
    IF Keys(log) # {}
    THEN IF marker = NoSchema THEN "noschema"
         ELSE "migrate"
    ELSE "seed"

\* The outcome of handleSync's reconciliation (lines 195-250).
SyncOutcome ==
    IF Keys(log) # {}
    THEN IF marker = NoSchema THEN "noschema"
         ELSE IF ~MigrationOk(marker) THEN "migerror"
         ELSE "migrate"
    ELSE "seed"

\* handleSync (lines 38-252): the five subscriptions, the initial presence
\* publish (which the handleUpdate of earlier calls hear, and skip as ours)
\* and the first run of the presence reaction, which schedules a frame
\* callback; then the reconciliation. Its own transaction reaches the
\* handlers it has just subscribed: handleChange drops it (transaction.local),
\* and handleMetaUpdate finds the marker it wrote, with no pending migration.
handleSync ==
    LET outcome == SyncOutcome
        snap == migrateStoreSnapshot(marker, log)
        completed == outcome \in {"migrate", "seed"}
        newAwareness == setLocalStateField(awareness, presence)
        published == NotifyUpdateListeners(listeners.update, store,
                        AwarenessStates(newAwareness), {OwnPresenceId}, {})
        newLog == IF outcome = "migrate" THEN ReconcileLog(log, snap)
                  ELSE IF outcome = "seed" THEN SeedLog(log, published)
                  ELSE log
        newStore == IF outcome = "migrate" THEN loadSnapshot(published, snap)
                    ELSE published
        newMarker == IF completed THEN MarkerAfterSync ELSE marker
    IN
    /\ listeners' = [listeners EXCEPT !.store = @ + 1, !.change = @ + 1,
                                      !.react = @ + 1, !.meta = @ + 1,
                                      !.update = @ + 1]
    /\ unsubs' = unsubs \o SyncDisposers
    /\ awareness' = newAwareness
    /\ frames' = Append(frames, presence)
    /\ log' = newLog
    /\ store' = newStore
    /\ marker' = newMarker
    /\ status' = IF completed THEN "online" ELSE status
    /\ hist' = [hist EXCEPT
                  !.op = outcome,
                  !.from = marker,
                  !.heard = TRUE,
                  !.txns = IF completed THEN 1 ELSE 0,
                  !.merges = listeners.update,
                  !.mixed = FALSE,
                  !.partial = FALSE,
                  !.undef = FALSE,
                  !.publishes = 1,
                  !.incompatible = outcome = "migerror" \/ (@ /\ ~completed),
                  !.runs = @ + 1,
                  !.done = IF completed THEN @ + 1 ELSE @,
                  !.first = IF completed /\ hist.done = 0
                            THEN [taken |-> TRUE, log |-> newLog,
                                  marker |-> newMarker, store |-> newStore]
                            ELSE @]


----------------------------------------------------------------------------
(* Connection lifecycle *)

\* handleStatusDisconnected falling back to the loading status.
handleStatusDisconnectedToLoading ==
    /\ status' = "loading"
    /\ UNCHANGED <<hasConnectedBefore, listeners, unsubs>>

\* handleStatusChange({status: 'disconnected'}) (lines 261-268).
handleStatusDisconnected ==
    /\ status' = "offline"
    /\ UNCHANGED <<hasConnectedBefore, listeners, unsubs>>

\* handleStatusChange({status: 'connected'}) (lines 270-276): the 'synced'
\* subscription is dropped first, and made again only on the first call.
handleStatusConnected ==
    IF hasConnectedBefore
    THEN /\ listeners' = [listeners EXCEPT !.synced = 0]
         /\ UNCHANGED <<status, hasConnectedBefore, unsubs>>
    ELSE /\ hasConnectedBefore' = TRUE
         /\ listeners' = [listeners EXCEPT !.synced = 1]
         /\ unsubs' = Append(unsubs, "synced")
         /\ UNCHANGED status

\* The transport emits 'status' with 'connected'.
StatusConnected ==
    /\ wsconnected' = TRUE
    /\ IF listeners.status > 0
       THEN handleStatusConnected
       ELSE UNCHANGED <<status, hasConnectedBefore, listeners, unsubs>>
    /\ hist' = Quiet(hist, "event")
    /\ UNCHANGED <<store, log, marker, awareness, presence, frames>>

\* The transport emits 'status' with 'disconnected'.
StatusDisconnected ==
    /\ wsconnected' = FALSE
    /\ IF listeners.status > 0
       THEN handleStatusDisconnected
       ELSE UNCHANGED <<status, hasConnectedBefore, listeners, unsubs>>
    /\ hist' = Quiet(hist, "event")
    /\ UNCHANGED <<store, log, marker, awareness, presence, frames>>

\* The transport emits 'synced' and handleSync is subscribed.
SyncedHeard ==
    /\ listeners.synced > 0
    /\ hist.runs < MaxSyncs
    /\ Len(frames) < MaxFrames
    /\ handleSync
    /\ UNCHANGED <<hasConnectedBefore, wsconnected, presence>>

\* The transport emits 'synced' and nothing is subscribed to it.
SyncedUnheard ==
    /\ listeners.synced = 0
    /\ hist' = [Quiet(hist, "event") EXCEPT !.heard = TRUE]
    /\ UNCHANGED <<status, hasConnectedBefore, listeners, unsubs, store, log,
                   marker, awareness, wsconnected, presence, frames>>

----------------------------------------------------------------------------
(* Edits *)

\* The change sets of a user edit and of a remote transaction.
UserChangeSets == ChangeSets(DocIds \cup SessionIds, NewVals)
RemoteChangeSets == ChangeSets(DocIds, NewVals)

\* The contents a user edit can give a record of each scope.
EditVals(id) == IF id \in DocIds THEN NewVals ELSE {EphemeralVal}

\* What a user edit leaves: the store after the echo of the log's change
\* notification (transaction.local, so handleChange drops it), the log after
\* the store listeners' transactions, and the observation of the step.
UserEditOutcome(late, mixed, partial, notified, txns, newLog, echo) ==
    /\ store' = echo.store
    /\ log' = newLog
    /\ hist' = [hist EXCEPT !.op = "edit", !.from = NoSchema,
                            !.txns = txns,
                            !.merges = notified * echo.merges,
                            !.mixed = mixed,
                            !.partial = partial,
                            !.undef = FALSE,
                            !.publishes = 0,
                            !.late = late,
                            !.first = IF newLog = log THEN @ ELSE NoSnapshot]

\* store.listen (lines 42-59) for one change set: the listeners the filter
\* lets it reach each run syncStoreChangesToYjsDoc, and yStore 'change' then
\* reaches the subscribed handleChange.
UserEditBatch(late, newStore, added, updated, removed) ==
    LET changed == added \cup updated \cup removed
        notified == StoreListeners(listeners.store, "user", changed)
        txs == StoreTransactions(notified, added, updated, removed)
        newLog == NotifyStoreListeners(notified, log, newStore,
                                       added, updated, removed)
    IN  UserEditOutcome(late, added \cup updated # {} /\ removed # {},
                        PartialBatch(txs, changed), notified, Len(txs), newLog,
                        NotifyChangeListeners(
                            IF notified = 0 THEN 0 ELSE listeners.change,
                            TRUE, newStore, newLog, added \cup updated, removed))

\* A user edit of the Local Store, and the store listeners it notifies.
\* late is the count of events after the cleanup that the edit leaves.
UserEdit(late) ==
    /\ \E cs \in UserChangeSets :
        /\ \A id \in DOMAIN cs : cs[id] # store[id] /\ cs[id] \in EditVals(id) \cup {Absent}
        /\ UserEditBatch(late, Apply(store, cs), Added(store, cs, DocIds),
                         Updated(store, cs, DocIds), Removed(store, cs, DocIds))
    /\ UNCHANGED <<status, hasConnectedBefore, listeners, unsubs, marker,
                   awareness, wsconnected, presence, frames>>

\* A user edit through the editor. The hook hands the store out with a status
\* that is not loading (lines 246-250, 262-266), and the editor that holds it
\* lives as long as the effect.
LocalEdit ==
    /\ status # "loading"
    /\ listeners.status > 0
    /\ UserEdit(hist.late)

\* A user edit after the effect's cleanup, by code that still holds the store
\* the hook handed out.
LateEdit ==
    /\ status # "loading"
    /\ unsubs = <<>>
    /\ hist.late < MaxLate
    /\ UserEdit(hist.late + 1)

\* What a remote transaction leaves: the records handleChange merged reach
\* the store listeners as a change of source "remote" (lines 58, 90).
RemoteTxnOutcome(late, newLog, putKeys, removeKeys, merged) ==
    LET relayed == StoreListeners(listeners.store, "remote",
                       IF merged.merges > 0
                       THEN (putKeys \cup removeKeys) \cap DocIds ELSE {})
        txs == StoreTransactions(relayed, putKeys, {}, removeKeys)
    IN
    /\ log' = NotifyStoreListeners(relayed, newLog, merged.store,
                                   putKeys, {}, removeKeys)
    /\ store' = merged.store
    /\ hist' = [Quiet(hist, "remote") EXCEPT
                    !.txns = Len(txs),
                    !.merges = merged.merges,
                    !.undef = merged.undef,
                    !.late = late,
                    !.first = NoSnapshot]

\* yStore 'change' (line 96) is delivered with transaction.local false.
RemoteTxnBatch(late, newLog, putKeys, removeKeys) ==
    RemoteTxnOutcome(late, newLog, putKeys, removeKeys,
                     NotifyChangeListeners(listeners.change, FALSE, store,
                                           newLog, putKeys, removeKeys))

\* A transaction of another participant reaches the log. What other
\* participants wrote before this one's first 'synced' is the initial log.
RemoteTxnAt(late) ==
    /\ hist.runs > 0
    /\ \E cs \in RemoteChangeSets :
        /\ \A id \in DOMAIN cs : cs[id] # log[id]
        /\ RemoteTxnBatch(late, Apply(log, cs),
                          Added(log, cs, Ids) \cup Updated(log, cs, Ids),
                          Removed(log, cs, Ids))
    /\ UNCHANGED <<status, hasConnectedBefore, listeners, unsubs, marker,
                   awareness, wsconnected, presence, frames>>

RemoteTxn == RemoteTxnAt(hist.late)

\* yStore 'change' reports, in a remote transaction, an add of key k whose
\* value yStore.get(k) does not find, next to the transaction's other changes.
\* store.put throws on the undefined it is handed; the store keeps the
\* removals made before it or, where the store rolls the merge back, nothing.
MalformedChange ==
    /\ hist.runs > 0
    /\ \E k \in DocIds :
       \E cs \in {c \in RemoteChangeSets : k \notin DOMAIN c} \cup {<<>>} :
        LET newLog == Apply(log, cs)
            putKeys == Added(log, cs, Ids) \cup Updated(log, cs, Ids) \cup {k}
            removeKeys == Removed(log, cs, Ids)
            merged == NotifyChangeListeners(listeners.change, FALSE, store,
                                            newLog, putKeys, removeKeys)
        IN
        /\ log[k] = Absent
        /\ Cardinality(DOMAIN cs) < MaxBatch
        /\ \A id \in DOMAIN cs : cs[id] # log[id]
        /\ log' = newLog
        /\ store' \in IF merged.undef THEN {store, merged.store}
                      ELSE {merged.store}
        /\ hist' = [Quiet(hist, "malformed") EXCEPT
                        !.merges = merged.merges,
                        !.undef = merged.undef,
                        !.first = IF newLog = log THEN @ ELSE NoSnapshot]
    /\ UNCHANGED <<status, hasConnectedBefore, listeners, unsubs, marker,
                   awareness, wsconnected, presence, frames>>

\* handleMetaUpdate (lines 173-184) on marker m: whether it alerts and calls
\* yDoc.destroy(), that is, whether getMigrationsSince(m) fails (m is newer
\* than this build knows) or returns pending migrations (m is older).
handleMetaUpdate(m) == ~MigrationOk(m) \/ m < OurSchema

\* Another participant sets the marker; meta's observers run. yDoc.destroy()
\* drops the observers registered on yDoc itself, and the hook has none there:
\* its subscriptions are on store, yStore, meta, room and room.awareness.
RemoteMarkerUpdateAt(late) ==
    /\ hist.runs > 0
    /\ \E m \in {OldSchema, OurSchema, NewerSchema} \ {marker} :
        /\ marker' = m
        /\ hist' = [Quiet(hist, "meta") EXCEPT
                        !.incompatible = @ \/ (listeners.meta > 0 /\ handleMetaUpdate(m)),
                        !.late = late,
                        !.first = NoSnapshot]
    /\ UNCHANGED <<status, hasConnectedBefore, listeners, unsubs, store, log,
                   awareness, wsconnected, presence, frames>>

RemoteMarkerUpdate == RemoteMarkerUpdateAt(hist.late)

\* Remote participant A publishes its presence, or leaves; the awareness
\* 'update' event reports it as added or removed.
AwarenessUpdate ==
    /\ \E p \in PresenceIds :
        LET joins == awareness.remote[p] = Absent
            states == [awareness EXCEPT
                          !.remote[p] = IF joins THEN EphemeralVal ELSE Absent]
        IN
        /\ awareness' = states
        /\ store' = NotifyUpdateListeners(listeners.update, store,
                        AwarenessStates(states),
                        IF joins THEN {p} ELSE {}, IF joins THEN {} ELSE {p})
        /\ hist' = [Quiet(hist, "event") EXCEPT !.merges = listeners.update]
    /\ UNCHANGED <<status, hasConnectedBefore, listeners, unsubs, log, marker,
                   wsconnected, presence, frames>>

\* Remote participant A, present, publishes a changed presence; the awareness
\* 'update' event reports it as updated.
AwarenessMove ==
    /\ \E p \in PresenceIds :
       \E v \in PresenceVals \ {awareness.remote[p]} :
        LET states == [awareness EXCEPT !.remote[p] = v]
        IN
        /\ awareness.remote[p] # Absent
        /\ awareness' = states
        /\ store' = NotifyUpdateListeners(listeners.update, store,
                        AwarenessStates(states), {p}, {})
        /\ hist' = [Quiet(hist, "move") EXCEPT !.merges = listeners.update]
    /\ UNCHANGED <<status, hasConnectedBefore, listeners, unsubs, log, marker,
                   wsconnected, presence, frames>>

----------------------------------------------------------------------------
(* Presence publish *)

\* The reaction of lines 128-133, run by each of the n subscribed reactions
\* when the derivation has recomputed to v: every run schedules a frame
\* callback of its own, holding v.
RECURSIVE NotifyReactions(_, _, _)
NotifyReactions(n, fs, v) ==
    IF n = 0 THEN fs ELSE NotifyReactions(n - 1, Append(fs, v), v)

\* presenceDerivation recomputes (the user's cursor, selection, name or
\* colour changed).
PresenceChangeAt(late) ==
    /\ Len(frames) + listeners.react <= MaxFrames
    /\ \E v \in PresenceVals \ {presence} :
        /\ presence' = v
        /\ frames' = NotifyReactions(listeners.react, frames, v)
    /\ hist' = [Quiet(hist, "presence") EXCEPT !.late = late]
    /\ UNCHANGED <<status, hasConnectedBefore, listeners, unsubs, store, log,
                   marker, awareness, wsconnected>>

PresenceChange == PresenceChangeAt(hist.late)

\* The browser's next animation frame: every pending callback runs, in
\* scheduling order, and publishes the presence it holds (line 131); each
\* publish reaches the subscribed handleUpdate, which skip it as ours.
AnimationFrame ==
    /\ frames # <<>>
    /\ LET published == setLocalStateField(awareness, frames[Len(frames)])
       IN /\ awareness' = published
          /\ store' = NotifyUpdateListeners(listeners.update, store,
                            AwarenessStates(published), {OwnPresenceId}, {})
    /\ frames' = <<>>
    /\ hist' = [Quiet(hist, "frame") EXCEPT
                    !.publishes = Len(frames),
                    !.merges = Len(frames) * listeners.update]
    /\ UNCHANGED <<status, hasConnectedBefore, listeners, unsubs, log, marker,
                   wsconnected, presence>>

----------------------------------------------------------------------------
(* Teardown *)

\* One disposer of the list, by tag.
RECURSIVE Dispose(_, _)
Dispose(ls, fns) ==
    IF fns = <<>> THEN ls
    ELSE LET k == Head(fns)
             next == IF k \in {"status", "synced"}
                     THEN [ls EXCEPT ![k] = 0]
                     ELSE [ls EXCEPT ![k] = IF @ > 0 THEN @ - 1 ELSE 0]
         IN Dispose(next, Tail(fns))

\* The function the effect returns (lines 281-284): every recorded disposer
\* is called, and the list emptied.
RunCleanup(op) ==
    /\ listeners' = Dispose(listeners, unsubs)
    /\ unsubs' = <<>>
    /\ hist' = Quiet(hist, op)
    /\ UNCHANGED <<status, hasConnectedBefore, store, log, marker, awareness,
                   wsconnected, presence, frames>>

\* The effect's cleanup.
Cleanup ==
    /\ unsubs # <<>>
    /\ RunCleanup("event")

\* The cleanup function called once more.
CleanupAgain ==
    /\ unsubs = <<>>
    /\ RunCleanup("recleanup")

----------------------------------------------------------------------------
(* Specification *)

\* The log as other participants may have left it before this one syncs:
\* document records written under the marker's schema.
InitLogs(m) ==
    LET vals == IF m = OldSchema THEN OldVals ELSE NewVals
    IN {l \in [Ids -> vals \cup {Absent}] : \A id \in Ids \ DocIds : l[id] = Absent}

\* After the effect has run (lines 35-37, 254, 279-280): status loading, only
\* the 'status' handler subscribed, the store as createTLStore leaves it.
Init ==
    /\ status = "loading"
    /\ hasConnectedBefore = FALSE
    /\ listeners = [NoListeners EXCEPT !.status = 1]
    /\ unsubs = <<"status">>
    /\ store = EmptyRecs
    /\ marker \in {NoSchema, OldSchema, OurSchema, NewerSchema}
    /\ log \in InitLogs(marker)
    /\ awareness = [local |-> Absent, remote |-> [p \in PresenceIds |-> Absent]]
    /\ wsconnected = FALSE
    /\ presence = InitialPresence
    /\ frames = <<>>
    /\ hist = [op |-> "init", from |-> NoSchema, txns |-> 0, merges |-> 0,
               runs |-> 0, done |-> 0, heard |-> FALSE, first |-> NoSnapshot,
               mixed |-> FALSE, partial |-> FALSE, undef |-> FALSE,
               publishes |-> 0, incompatible |-> FALSE, late |-> 0]

\* The bridge between store and log: transport events, user edits, healthy
\* remote transactions, remote presence, teardown.
Next ==
    \/ StatusConnected
    \/ StatusDisconnected
    \/ SyncedHeard
    \/ SyncedUnheard
    \/ LocalEdit
    \/ RemoteTxn
    \/ AwarenessUpdate
    \/ Cleanup

Spec == Init /\ [][Next]_vars

\* Presence: transport events, remote presence, this participant's presence
\* reaction and the animation frames, teardown.
NextPresence ==
    \/ StatusConnected
    \/ StatusDisconnected
    \/ SyncedHeard
    \/ SyncedUnheard
    \/ AwarenessUpdate
    \/ AwarenessMove
    \/ PresenceChange
    \/ AnimationFrame
    \/ Cleanup

SpecPresence == Init /\ [][NextPresence]_vars

\* A room no participant has written to: the log empty, the marker unset.
InitFresh ==
    /\ Init
    /\ Keys(log) = {}
    /\ marker = NoSchema

\* Events that reach the hook after its cleanup.
LateOk == unsubs = <<>> /\ hist.late < MaxLate
LateRemoteTxn == LateOk /\ RemoteTxnAt(hist.late + 1)
LateMarkerUpdate == LateOk /\ RemoteMarkerUpdateAt(hist.late + 1)
LatePresenceChange == LateOk /\ PresenceChangeAt(hist.late + 1)

\* The bridge in a fresh room, local edits only: transport events, user
\* edits, teardown.
NextEdits ==
    \/ StatusConnected
    \/ StatusDisconnected
    \/ SyncedHeard
    \/ SyncedUnheard
    \/ LocalEdit
    \/ Cleanup

SpecEdits == InitFresh /\ [][NextEdits]_vars

\* Teardown in a fresh room: transport events and remote presence, the
\* cleanup, and every kind of event after it.
NextTeardown ==
    \/ StatusConnected
    \/ StatusDisconnected
    \/ SyncedHeard
    \/ SyncedUnheard
    \/ AwarenessUpdate
    \/ AnimationFrame
    \/ Cleanup
    \/ CleanupAgain
    \/ LateEdit
    \/ LateRemoteTxn
    \/ LateMarkerUpdate
    \/ LatePresenceChange

SpecTeardown == InitFresh /\ [][NextTeardown]_vars

\* Faults: transport events, remote transactions healthy and malformed,
\* remote marker updates, teardown.
NextFaults ==
    \/ StatusConnected
    \/ StatusDisconnected
    \/ SyncedHeard
    \/ SyncedUnheard
    \/ RemoteTxn
    \/ MalformedChange
    \/ RemoteMarkerUpdate
    \/ Cleanup

SpecFaults == Init /\ [][NextFaults]_vars

----------------------------------------------------------------------------
(* Properties *)

\* Steps, recognised in a pair of states.
SyncStep == hist'.runs = hist.runs + 1
ConnectStep == ~wsconnected /\ wsconnected'
DisconnectStep == wsconnected /\ ~wsconnected'
DocEditStep == hist'.op = "edit" /\ DocPart(store') # DocPart(store)
Subscribed == listeners.status > 0

\* C1: once handleSync has completed and while the bridge is subscribed, the
\* log's entries are exactly the document-scope records of the Local Store.
MirrorEquivalence ==
    (hist.done >= 1 /\ listeners.store >= 1) => log = DocPart(store)

\* C2: a document-scope user edit made while the bridge is subscribed opens
\* exactly one log transaction and causes no mergeRemoteChanges call.
EchoSuppression ==
    [][(DocEditStep /\ listeners.store >= 1)
        => (hist'.txns = 1 /\ hist'.merges = 0)]_vars

\* C3: the first 'synced' event, emitted while the transport is connected and
\* with a reconcilable log, leaves the status synced-remote{online}.
FirstSyncedGoesOnline ==
    [][(~hist.heard /\ hist'.heard /\ wsconnected /\ Subscribed
        /\ SyncOutcome \in {"seed", "migrate"})
        => status' = "online"]_vars

\* C4: after the initial sync, a 'disconnected' event sets offline, a
\* 'connected' event sets online, and neither runs handleSync.
ConnectionToggles ==
    [][(hist.done >= 1 /\ Subscribed)
        => /\ DisconnectStep => (status' = "offline" /\ ~SyncStep)
           /\ ConnectStep => (status' = "online" /\ ~SyncStep)]_vars

\* C5: the status is loading until a reconciliation has completed.
LoadingUntilReconciled ==
    status # "loading" => hist.done >= 1

\* C6: once the status is not loading, no event makes it loading again.
NeverLoadingAgain ==
    [][status # "loading" => status' # "loading"]_vars

\* C6 witness: the status has been online, went offline, and the transport
\* has reconnected since.
NeverLoadingAgainWitness ==
    hist.done >= 1 /\ status = "offline" /\ wsconnected

\* C7: handleSync runs at most once, and no handler is subscribed twice.
SyncRunsOnce ==
    /\ hist.runs <= 1
    /\ \A k \in DOMAIN listeners : listeners[k] <= 1

\* C8: handleSync against an empty log writes exactly the store's records,
\* sets the marker to the local schema and leaves the store as it was.
Seeding ==
    [][(SyncStep /\ Keys(log) = {})
        => (log' = store /\ marker' = OurSchema /\ store' = store)]_vars

\* C8 witness: a seeding that wrote two or more records.
SeedingWitness ==
    hist.op = "seed" /\ Cardinality(Keys(log)) >= 2 /\ log = store

\* C9: handleSync against a non-empty log whose marker migrates leaves the
\* log and the store equal to the migrated snapshot, marker at the local schema.
MigrationForward ==
    [][(SyncStep /\ Keys(log) # {} /\ marker # NoSchema /\ MigrationOk(marker))
        => LET snap == [id \in Ids |->
                          IF marker = OldSchema THEN MigrateRecord(log[id])
                          ELSE log[id]]
           IN log' = snap /\ store' = snap /\ marker' = OurSchema]_vars

\* C9 witness: a migration from the old schema that kept a record, now in
\* its migrated form in the log and in the store.
MigrationForwardWitness ==
    /\ hist.op = "migrate" /\ hist.from = OldSchema
    /\ \E id \in DocIds : log[id] = MigrateRecord(1) /\ store[id] = log[id]
    /\ log = store /\ marker = OurSchema

\* C10: a second reconciliation against a log unchanged since the first
\* leaves log, marker and store as the first left them.
IdempotentReconciliation ==
    (hist.done = 2 /\ hist.op \in {"seed", "migrate"} /\ hist.first.taken)
        => /\ log = hist.first.log
           /\ marker = hist.first.marker
           /\ store = hist.first.store

\* C11: a document-scope user edit reaches the log in transactions none of
\* which shows a peer part of the batch: after each, the peer has seen none
\* or all of the edit's changes, and the log then holds every one of them.
AtomicBatchVisibility ==
    [][(DocEditStep /\ listeners.store >= 1)
        => /\ hist'.txns >= 1
           /\ ~hist'.partial
           /\ \A id \in DocIds : store'[id] # store[id] => log'[id] = store'[id]]_vars

\* C11 witness: an edit that both put and removed document records has been
\* written to the log, whole.
AtomicBatchVisibilityWitness ==
    /\ hist.op = "edit" /\ hist.mixed /\ hist.txns >= 1 /\ ~hist.partial
    /\ log = DocPart(store)

\* C12: with handleUpdate subscribed, an awareness 'update' that reports
\* participant A added or updated leaves A's presence record, as published, in
\* the store, and one that reports A removed leaves no such record.
PresenceLifecycle ==
    [][listeners.update >= 1
        => \A p \in PresenceIds :
              awareness'.remote[p] # awareness.remote[p]
                  => store'[p] = awareness'.remote[p]]_vars

\* C12 witness: A was added, then updated, and the store holds its latest
\* presence.
PresenceLifecycleWitness ==
    /\ hist.op = "move" /\ listeners.update >= 1
    /\ \E p \in PresenceIds :
          awareness.remote[p] # Absent /\ store[p] = awareness.remote[p]

\* C13: no presence record is ever an entry of the log.
NoPresenceInLog ==
    \A p \in PresenceIds : log[p] = Absent

\* C14: the cleanup leaves no handler subscribed; after it no event changes
\* the status or the connection flag, subscribes a handler, opens a log
\* transaction, merges into the store, schedules a presence publish or
\* raises the incompatibility alert; a user edit leaves the log alone and
\* any other event the store; and the cleanup called again changes nothing.
TeardownIsFinal ==
    [][/\ (unsubs # <<>> /\ unsubs' = <<>>) => listeners' = NoListeners
       /\ unsubs = <<>>
            => /\ listeners = NoListeners /\ listeners' = NoListeners
               /\ unsubs' = <<>>
               /\ status' = status
               /\ hasConnectedBefore' = hasConnectedBefore
               /\ hist'.txns = 0 /\ hist'.merges = 0
               /\ hist'.incompatible = hist.incompatible
               /\ Len(frames') <= Len(frames)
               /\ hist'.op = "edit" => log' = log
               /\ hist'.op # "edit" => store' = store
               /\ hist'.op = "recleanup"
                    => UNCHANGED <<status, hasConnectedBefore, listeners,
                                   unsubs, store, log, marker, awareness,
                                   wsconnected, presence, frames>>]_vars

\* C14 witness: after a reconciliation and the cleanup, a remote transaction
\* changed the log and the store was left as it was.
TeardownIsFinalWitness ==
    /\ unsubs = <<>> /\ hist.runs >= 1 /\ hist.done >= 1
    /\ hist.op = "remote" /\ hist.merges = 0
    /\ DocPart(store) # log

\* C15: with handleChange subscribed, a remote log transaction is merged into
\* the store in exactly one mergeRemoteChanges, which brings every changed
\* record, and this participant opens no log transaction for it.
ReverseEchoSuppression ==
    [][(hist'.op = "remote" /\ listeners.change >= 1)
        => /\ hist'.merges = 1
           /\ hist'.txns = 0
           /\ \A id \in DocIds : log'[id] # log[id] => store'[id] = log'[id]]_vars

\* C16: handleSync against a non-empty log whose marker is absent, or whose
\* migration fails, leaves log, marker, store and status as they were.
FailedReconciliationChangesNothing ==
    [][(SyncStep /\ Keys(log) # {}
            /\ (marker = NoSchema \/ ~MigrationOk(marker)))
        => /\ log' = log
           /\ marker' = marker
           /\ store' = store
           /\ status' = status]_vars

\* C16 witness: a reconciliation failed on a log written under a newer
\* schema; the status is still loading and the store still empty.
FailedReconciliationWitness ==
    /\ hist.op = "migerror" /\ hist.from = NewerSchema
    /\ Keys(log) # {} /\ marker = NewerSchema
    /\ store = EmptyRecs /\ status = "loading"

\* C17: from the detection of an incompatible schema on (and until a
\* reconciliation completes), every disposer has been invoked, no event opens
\* a log transaction and no log change is merged into the store.
IncompatibilityStopsSync ==
    [][hist.incompatible
        => /\ listeners = NoListeners
           /\ hist'.txns = 0
           /\ hist'.op \in {"remote", "malformed"} => hist'.merges = 0]_vars

\* C18: with handleChange subscribed, a remote notification that reports an
\* added key whose value is absent hands no undefined to store.put, and every
\* other change of the transaction reaches the store.
MalformedEntriesSkipped ==
    [][(hist'.op = "malformed" /\ listeners.change >= 1)
        => /\ ~hist'.undef
           /\ \A id \in DocIds : log'[id] # log[id] => store'[id] = log'[id]]_vars

\* C19: where handleSync has run once, so that one presence reaction is or
\* was subscribed, an animation frame performs at most one presence publish,
\* and with the reaction subscribed what it leaves published is the latest
\* presence.
PublishCoalescing ==
    [][(hist'.op = "frame" /\ hist.runs = 1)
        => /\ hist'.publishes <= 1
           /\ listeners.react >= 1 => awareness'.local = presence]_vars

\* C20: after the cleanup no event publishes presence.
NoPublishAfterCleanup ==
    [][unsubs = <<>> => hist'.publishes = 0]_vars

====
